---- MODULE Spec2Model ----
(***************************************************************************)
(* Transport layer of the pirates RPC crate (src/src/transport.rs):        *)
(*   - TransportWireConfig: serialize / deserialize                        *)
(*   - Transport: send_query / receive_query / respond                     *)
(*   - InternalTransport implementations: TcpTransport (a tokio TcpStream) *)
(*     and CannedTestingTransport (the test double).                       *)
(* Byte buffers are sequences of integers 0..255.  One operation is in     *)
(* flight at a time (every method takes &mut self); the peer, the network  *)
(* and the clock move between the await points of TcpTransport.            *)
(***************************************************************************)
EXTENDS Integers, Sequences, FiniteSets, TLC

\* ------------------------------------------------------------------ bounds
\* Number of operations the local program invokes in one run.
MaxOps == 2
\* Number of write calls the peer performs on its end of the stream.
MaxWrites == 2
\* Number of TCP segments that split the peer's bytes short of what is in flight.
MaxSegments == 1
\* Longest receive timeout, in clock ticks.
MaxDuration == 1
\* Ticks the model lets a read without a timeout wait.
MaxWait == 2
\* Largest receive_times the test double is created with.
MaxReceiveTimes == 1

\* --------------------------------------------------------------- constants
\* let mut buf = [0u8; 1024];  buf.len()
BufLen == 1024

\* Opcodes of the self-describing wire format (pickle's BINUNICODE, BININT1,
\* EMPTY_LIST and EMPTY_DICT), used by serialize/deserialize below.
BINUNICODE == 88
BININT1 == 75
EMPTY_LIST == 93
EMPTY_DICT == 125

\* ------------------------------------------------------------------ values
\* The RPC names of the program (an enum of unit variants) and the strings used.
Names == {"HelloWorld", "Ping"}
\* A value of the Name type whose Serialize implementation reports an error.
UnencodableNames == {"Unencodable"}
Strings == Names \cup {"Foo"}

Utf8(s) ==
    CASE s = "HelloWorld" -> <<72, 101, 108, 108, 111, 87, 111, 114, 108, 100>>
      [] s = "Ping" -> <<80, 105, 110, 103>>
      [] s = "Foo" -> <<70, 111, 111>>

\* Durations in clock ticks; 0 is Duration::ZERO.
Durations == 0..MaxDuration

\* Option<Duration>
None == [some |-> FALSE, dur |-> 0]
Some(d) == [some |-> TRUE, dur |-> d]

\* ------------------------------------------------------- TransportError
NoError == [kind |-> "none", msg |-> "", dur |-> 0]
SendError(s) == [kind |-> "SendError", msg |-> s, dur |-> 0]
ReceiveError(s) == [kind |-> "ReceiveError", msg |-> s, dur |-> 0]
ReceiveTimeout(d) == [kind |-> "ReceiveTimeout", msg |-> "", dur |-> d]
SerialiseError(s) == [kind |-> "SerialiseError", msg |-> s, dur |-> 0]
DeserialiseError(s) == [kind |-> "DeserialiseError", msg |-> s, dur |-> 0]

\* std::io::Error values the stream can produce; format!("{:?}", e) is the name.
IoErrors == {"ConnectionReset"}
io_send(e) == SendError(e)
io_receive(e) == ReceiveError(e)

\* Result<OwnedBytes, TransportError>
Ok(b) == [ok |-> TRUE, bytes |-> b, err |-> NoError]
Err(e) == [ok |-> FALSE, bytes |-> <<>>, err |-> e]

\* ------------------------------------------------------------ WireCodec
\* serialize(&str) / serialize(unit variant): opcode, length, UTF-8 bytes.
SerString(s) == Ok(<<BINUNICODE, Len(Utf8(s))>> \o Utf8(s))
\* serialize(&[u8]) as a field: opcode, length, the bytes.
SerSeq(b) == <<EMPTY_LIST, Len(b)>> \o b
\* serialize(TransportPackage {name_bytes, query_bytes}): one unit holding both.
SerPackage(name_bytes, query_bytes) ==
    Ok(<<EMPTY_DICT>> \o SerSeq(name_bytes) \o SerSeq(query_bytes))
\* serialize(42)
SerInt(i) == Ok(<<BININT1, i>>)
\* serialize(&rpc_name): .map_err(|pickle_error| SerialiseError(format!(..)))
SerName(n) ==
    IF n \in UnencodableNames THEN Err(SerialiseError("custom")) ELSE SerString(n)

\* deserialize::<String>: the whole buffer must be one string.
DeString(b) ==
    IF Len(b) >= 2 /\ b[1] = BINUNICODE /\ b[2] = Len(b) - 2
    THEN IF \E s \in Strings : Utf8(s) = SubSeq(b, 3, Len(b))
         THEN [ok |-> TRUE, str |-> CHOOSE s \in Strings : Utf8(s) = SubSeq(b, 3, Len(b)),
               err |-> NoError]
         ELSE [ok |-> FALSE, str |-> "", err |-> DeserialiseError("invalid utf-8")]
    ELSE [ok |-> FALSE, str |-> "", err |-> DeserialiseError("invalid type")]

\* deserialize::<Name>: a string naming a variant of the enum.
DeName(b) ==
    LET r == DeString(b) IN
    IF ~r.ok THEN r
    ELSE IF r.str \in Names THEN r
    ELSE [ok |-> FALSE, str |-> "", err |-> DeserialiseError("unknown variant")]

\* deserialize::<TransportPackageOwned>: a dict of two byte lists, nothing after.
DePackage(b) ==
    LET bad == [ok |-> FALSE, name_bytes |-> <<>>, query_bytes |-> <<>>,
                err |-> DeserialiseError("invalid type")]
    IN
    IF Len(b) < 3 \/ b[1] # EMPTY_DICT \/ b[2] # EMPTY_LIST THEN bad
    ELSE LET n1 == b[3]
             at == 3 + n1
         IN IF Len(b) < at + 2 \/ b[at + 1] # EMPTY_LIST \/ b[at + 2] # Len(b) - (at + 2)
            THEN bad
            ELSE [ok |-> TRUE, name_bytes |-> SubSeq(b, 4, at),
                  query_bytes |-> SubSeq(b, at + 3, Len(b)), err |-> NoError]

\* ---------------------------------------------------------------- results
\* What an operation hands back to the local program.  rpc = "TransportError"
\* marks a TransportError wrapped in RpcError::TransportError; rpc = "none" is
\* a success.
NoResult == [ok |-> FALSE, bytes |-> <<>>, name |-> "", err |-> NoError, rpc |-> "none"]
RpcOk(b) == [ok |-> TRUE, bytes |-> b, name |-> "", err |-> NoError, rpc |-> "none"]
\* RpcError::TransportError(e)
RpcTransportError(e) ==
    [ok |-> FALSE, bytes |-> <<>>, name |-> "", err |-> e, rpc |-> "TransportError"]
\* impl From<TransportError> for RpcError, used by `?` and Into::into
RpcErrorFrom(e) == RpcTransportError(e)
\* ReceivedQuery { name, query_bytes }
ReceivedQuery(n, q) == [ok |-> TRUE, bytes |-> q, name |-> n, err |-> NoError, rpc |-> "none"]

\* ----------------------------------------------------------------- state
VARIABLES
    chan,               \* "tcp": TcpTransport, "canned": CannedTestingTransport
    rcv_timeout,        \* Transport.config.rcv_timeout
    always_respond_with,\* CannedTestingTransport.always_respond_with
    receive_times,      \* CannedTestingTransport.receive_times
    stream,             \* every byte the peer has written to the stream, in order
    write_ends,         \* where in stream each of the peer's writes ends
    arrived,            \* how many of the peer's bytes have reached the local socket
    consumed,           \* how many of them stream.read has handed out
    peer_closed,        \* the peer has closed its end, and the close has arrived
    broken,             \* the connection is broken: reads and writes fail
    wire,               \* the bytes the local side has written to the stream
    op,                 \* the Transport operation in flight or last finished
    pc,                 \* "idle", "send" (in write_all) or "read" (in the receive loop)
    sendbuf,            \* b of the send in flight
    tmo,                \* timeout of the receive in flight (Option<Duration>)
    return_bytes,       \* return_bytes of the receive in flight
    waited,             \* ticks the current read has been pending
    elapsed,            \* ticks since the receive loop in flight began
    chan_result,        \* what the channel call of the last operation returned
    result,             \* what the last operation returned, NoResult while it is in flight
    calls,              \* channel calls made by the last operation
    reads,              \* stream.read calls begun by the last operation
    ended,              \* how its receive loop ended: "short", "eof", "error", "timeout"
    call_start,         \* value of consumed when the last operation began
    receives,           \* receive calls made on the channel so far
    canned_n,           \* receive_times the test double was created with
    all_arrived,        \* every byte the peer has written had reached the socket when
                        \* the last receive loop began, and it has written nothing since
    args,               \* the arguments the last operation was invoked with
    sends,              \* one record per write_all begun: the buffer and what reached the wire
    nops,               \* operations invoked so far
    segs                \* short segments delivered so far

cfgVars == <<chan, always_respond_with, canned_n>>
peerVars == <<stream, write_ends, arrived, peer_closed, broken, segs>>
callVars == <<op, pc, sendbuf, tmo, calls, nops, args>>
loopVars == <<return_bytes, waited, elapsed, reads, ended, call_start>>
vars == <<cfgVars, rcv_timeout, receive_times, peerVars, consumed, wire, callVars,
          loopVars, all_arrived, chan_result, result, sends, receives>>

\* ---------------------------------------------------------------- helpers
Min(a, b) == IF a < b THEN a ELSE b

\* Query and response payloads the caller supplies, already encoded: 42 and "Foo".
Queries == {SerInt(42).bytes, SerString("Foo").bytes}
Responses == {SerString("Foo").bytes}
\* The (query_bytes, rpc_name) pairs the caller passes to send_query.
SentQueries ==
    {<<SerInt(42).bytes, "HelloWorld">>, <<SerString("Foo").bytes, "Ping">>,
     <<SerInt(42).bytes, "Unencodable">>}

\* An envelope with its two fields the other way round.
package_bytes_swapped(query_bytes, rpc_name) ==
    LET name_bytes == SerName(rpc_name) IN
    IF ~name_bytes.ok THEN name_bytes
    ELSE SerPackage(query_bytes, name_bytes.bytes)

\* An envelope whose query field is encoded once more before it is packaged.
package_bytes_reencoded(query_bytes, rpc_name) ==
    LET name_bytes == SerName(rpc_name) IN
    IF ~name_bytes.ok THEN name_bytes
    ELSE SerPackage(name_bytes.bytes, SerSeq(query_bytes))

\* The bytes send_query puts on the wire for (query_bytes, rpc_name), or the error
\* of the serialize call that failed (each is followed by `?`).
package_bytes(query_bytes, rpc_name) ==
    LET name_bytes == SerName(rpc_name) IN
    IF ~name_bytes.ok THEN name_bytes
    ELSE SerPackage(name_bytes.bytes, query_bytes)

\* What the peer writes: the envelope of a query, or BufLen bytes of payload numbered by write.
Fill(k) == [i \in 1..BufLen |-> (i + k) % 251]
PeerPayloads(k) ==
    {package_bytes(qn[1], qn[2]).bytes : qn \in {x \in SentQueries : x[2] \in Names}}
      \cup {Fill(k)}

\* The run goes on while the local program has operations left or one in flight.
Running == nops < MaxOps \/ pc # "idle"

\* ------------------------------------------------- CannedTestingTransport
\* Each gives the call's result and the receive_times it leaves.
CannedSend(rt) == [res |-> Ok(<<>>), receive_times |-> rt]

\* A send_and_wait_for_response that answers only while receives are left.
CannedSendAndWaitCounted(s, rt) ==
    IF rt > 0
    THEN [res |-> Ok(SerString(s).bytes), receive_times |-> rt - 1]
    ELSE [res |-> Err(ReceiveError("Run out of receive count")), receive_times |-> rt]

CannedSendAndWait(s, rt) == [res |-> Ok(SerString(s).bytes), receive_times |-> rt]

\* A receive that answers once more than it was created to.
CannedReceiveOnceMore(s, rt) ==
    IF rt >= 0
    THEN [res |-> Ok(SerString(s).bytes), receive_times |-> rt - 1]
    ELSE [res |-> Err(ReceiveError("Run out of receive count")), receive_times |-> rt]

CannedReceive(s, rt) ==
    IF rt > 0
    THEN [res |-> Ok(SerString(s).bytes), receive_times |-> rt - 1]
    ELSE [res |-> Err(ReceiveError("Run out of receive count")), receive_times |-> rt]

Canned(fn) ==
    CASE fn = "send" -> CannedSend(receive_times)
      [] fn = "send_and_wait_for_response" ->
            CannedSendAndWait(always_respond_with, receive_times)
      [] fn = "receive" -> CannedReceive(always_respond_with, receive_times)

\* ------------------------------------------------------------- Transport
\* send_query once the channel has answered: .map_err(Into::into)
SendQueryResult(r) == IF r.ok THEN RpcOk(r.bytes) ELSE RpcErrorFrom(r.err)

\* A receive_query that reports a channel failure without its cause.
ReceiveQueryResultOpaque(r) ==
    IF r.ok
    THEN LET package == DePackage(r.bytes) IN
         IF ~package.ok THEN RpcErrorFrom(package.err)
         ELSE LET name == DeName(package.name_bytes) IN
              IF ~name.ok THEN RpcErrorFrom(name.err)
              ELSE ReceivedQuery(name.str, package.query_bytes)
    ELSE RpcTransportError(ReceiveError(""))

\* receive_query once the channel has answered: the match on receive(None)
ReceiveQueryResult(r) ==
    IF r.ok
    THEN LET package == DePackage(r.bytes) IN
         IF ~package.ok THEN RpcErrorFrom(package.err)
         ELSE LET name == DeName(package.name_bytes) IN
              IF ~name.ok THEN RpcErrorFrom(name.err)
              ELSE ReceivedQuery(name.str, package.query_bytes)
    ELSE RpcTransportError(r.err)

\* respond once the channel has answered: .map_err(RpcError::TransportError)
RespondResult(r) == IF r.ok THEN RpcOk(<<>>) ELSE RpcTransportError(r.err)

\* What operation o returns when its channel call returns r.
Complete(o, r) ==
    CASE o = "send_query" -> SendQueryResult(r)
      [] o = "receive_query" -> ReceiveQueryResult(r)
      [] o = "respond" -> RespondResult(r)

NoChanResult == Err(NoError)

\* The channel call of operation o returns r, and the operation with it.
Finish(o, r) ==
    /\ pc' = "idle"
    /\ chan_result' = r
    /\ result' = Complete(o, r)

\* The locals of the call that has returned are gone.
DropLocals ==
    /\ sendbuf' = <<>>
    /\ tmo' = None
    /\ return_bytes' = <<>>
    /\ waited' = 0
    /\ elapsed' = 0

\* ---------------------------------------------------------- TcpTransport
\* The receive loop begins: return_bytes is fresh, the first read is issued.
StartReceive(t) ==
    /\ pc' = "read"
    /\ sendbuf' = <<>>
    /\ tmo' = t
    /\ return_bytes' = <<>>
    /\ waited' = 0
    /\ elapsed' = 0
    /\ reads' = 1
    /\ ended' = "none"
    /\ all_arrived' = (arrived = Len(stream))

\* Operation o calls channel function fn with buffer b and timeout t.  The test
\* double answers at once; TcpTransport begins write_all or the receive loop.
Invoke(o, fn, b, t) ==
    /\ nops < MaxOps
    /\ nops' = nops + 1
    /\ op' = o
    /\ calls' = <<[fn |-> fn, bytes |-> b, timeout |-> t]>>
    /\ call_start' = consumed
    /\ receives' = IF fn = "receive" THEN receives + 1 ELSE receives
    /\ UNCHANGED <<cfgVars, rcv_timeout, peerVars, consumed, wire, sends>>
    /\ IF chan = "canned"
       THEN /\ receive_times' = Canned(fn).receive_times
            /\ Finish(o, Canned(fn).res)
            /\ DropLocals
            /\ UNCHANGED <<reads, ended, all_arrived>>
       ELSE /\ UNCHANGED receive_times
            /\ chan_result' = NoChanResult
            /\ result' = NoResult
            /\ IF fn = "receive"
               THEN StartReceive(t)
               ELSE /\ pc' = "send"
                    /\ sendbuf' = b
                    /\ tmo' = t
                    /\ reads' = 0
                    /\ ended' = "none"
                    /\ all_arrived' = FALSE
                    /\ UNCHANGED <<return_bytes, waited, elapsed>>

NoArgs == [query_bytes |-> <<>>, rpc_name |-> ""]

\* Operation o returns r before it has called the channel.
ReturnEarly(o, r) ==
    /\ nops < MaxOps
    /\ nops' = nops + 1
    /\ op' = o
    /\ calls' = <<>>
    /\ call_start' = consumed
    /\ pc' = "idle"
    /\ chan_result' = NoChanResult
    /\ result' = r
    /\ DropLocals
    /\ UNCHANGED <<cfgVars, rcv_timeout, receive_times, peerVars, consumed, wire, sends,
                   receives>>
    /\ IF chan = "canned"
       THEN UNCHANGED <<reads, ended, all_arrived>>
       ELSE /\ reads' = 0
            /\ ended' = "none"
            /\ all_arrived' = FALSE

\* A send_query that sends whatever the encoding left it with.
send_query_unchecked(query_bytes, rpc_name) ==
    /\ pc = "idle"
    /\ args' = [query_bytes |-> query_bytes, rpc_name |-> rpc_name]
    /\ Invoke("send_query", "send_and_wait_for_response",
              package_bytes(query_bytes, rpc_name).bytes, Some(rcv_timeout))

\* Transport::send_query(query_bytes, rpc_name)
send_query(query_bytes, rpc_name) ==
    /\ pc = "idle"
    /\ args' = [query_bytes |-> query_bytes, rpc_name |-> rpc_name]
    /\ LET encoded == package_bytes(query_bytes, rpc_name) IN
        IF encoded.ok
        THEN Invoke("send_query", "send_and_wait_for_response", encoded.bytes,
                    Some(rcv_timeout))
        ELSE ReturnEarly("send_query", RpcErrorFrom(encoded.err))

\* A receive_query that waits no longer than the configured rcv_timeout.
receive_query_with_timeout ==
    /\ pc = "idle"
    /\ args' = NoArgs
    /\ Invoke("receive_query", "receive", <<>>, Some(rcv_timeout))

\* Transport::receive_query()
receive_query ==
    /\ pc = "idle"
    /\ args' = NoArgs
    /\ Invoke("receive_query", "receive", <<>>, None)

\* A respond that packages its bytes before sending them.
respond_enveloped(bytes) ==
    /\ pc = "idle"
    /\ args' = [query_bytes |-> bytes, rpc_name |-> ""]
    /\ Invoke("respond", "send", SerSeq(bytes), None)

\* Transport::respond(bytes)
respond(bytes) ==
    /\ pc = "idle"
    /\ args' = [query_bytes |-> bytes, rpc_name |-> ""]
    /\ Invoke("respond", "send", bytes, None)

\* transport.config.rcv_timeout = d, between two calls
set_rcv_timeout(d) ==
    /\ pc = "idle"
    /\ 0 < nops
    /\ nops < MaxOps
    /\ d # rcv_timeout
    /\ rcv_timeout' = d
    /\ UNCHANGED <<cfgVars, receive_times, peerVars, consumed, wire, callVars, loopVars,
                   all_arrived, chan_result, result, sends, receives>>

\* A send failure reported through io_receive.
SendFailureAsReceive(e) == Err(io_receive(e))

\* What write_all's failure with io::Error e becomes: .map_err(TransportError::io_send)
SendFailure(e) == Err(io_send(e))

\* One record of sends: the buffer b, how many of its bytes reached the wire,
\* where on the wire they start, and the number of the operation that sent it.
SendRecord(b, k) == [bytes |-> b, wrote |-> k, at |-> Len(wire), opno |-> nops]

\* A wire on which later bytes overtake earlier ones.
WireBefore(w, b) == b \o w

\* The wire w once write_all has put bytes b on it.
WireAfter(w, b) == w \o b

\* TcpTransport::send: write_all(b) succeeds.  A plain send returns Ok(()); inside
\* send_and_wait_for_response the receive(Some(timeout)) begins.
TcpSendOk ==
    /\ pc = "send"
    /\ ~broken
    /\ wire' = WireAfter(wire, sendbuf)
    /\ sends' = Append(sends, SendRecord(sendbuf, Len(sendbuf)))
    /\ UNCHANGED <<cfgVars, rcv_timeout, receive_times, peerVars, consumed, op, calls,
                   nops, args, call_start, receives>>
    /\ IF calls[1].fn = "send"
       THEN /\ Finish(op, Ok(<<>>))
            /\ DropLocals
            /\ UNCHANGED <<reads, ended, all_arrived>>
       ELSE /\ StartReceive(tmo)
            /\ UNCHANGED <<chan_result, result>>

\* TcpTransport::send: write_all(b) fails with e, on a connection already
\* broken or breaking now, before any byte of b is written.
TcpSendFail(e) ==
    /\ pc = "send"
    /\ sends' = Append(sends, SendRecord(sendbuf, 0))
    /\ broken' = TRUE
    /\ Finish(op, SendFailure(e))
    /\ DropLocals
    /\ UNCHANGED <<cfgVars, rcv_timeout, receive_times, stream, write_ends, arrived,
                   peer_closed, segs, consumed, wire, op, calls, nops, args, reads, ended,
                   call_start, all_arrived, receives>>

\* TcpTransport::send: the connection breaks with e while write_all has written
\* only a part of b.
TcpSendBreak(e) ==
    /\ pc = "send"
    /\ ~broken
    /\ LET k == Len(sendbuf) \div 2 IN
        /\ wire' = WireAfter(wire, SubSeq(sendbuf, 1, k))
        /\ sends' = Append(sends, SendRecord(sendbuf, k))
    /\ broken' = TRUE
    /\ Finish(op, SendFailure(e))
    /\ DropLocals
    /\ UNCHANGED <<cfgVars, rcv_timeout, receive_times, stream, write_ends, arrived,
                   peer_closed, segs, consumed, op, calls, nops, args, reads, ended, call_start,
                   all_arrived, receives>>

\* Whether self.stream.read(&mut buf) can complete now.
ReadReady ==
    \/ broken
    \/ consumed < arrived
    \/ peer_closed /\ arrived = Len(stream)

\* A read that loses the first byte of what it takes from the stream.
StreamReadSkipping ==
    LET n == Min(BufLen, arrived - consumed) IN
    [ok |-> TRUE, n |-> n, data |-> SubSeq(stream, consumed + 2, consumed + n),
     e |-> "none"]

\* What self.stream.read(&mut buf) yields on an open connection: the next bytes
\* that have arrived, at most buf.len() of them, none at end of stream.
StreamRead ==
    LET n == Min(BufLen, arrived - consumed) IN
    [ok |-> TRUE, n |-> n, data |-> SubSeq(stream, consumed + 1, consumed + n),
     e |-> "none"]

\* What it yields on a broken connection.
StreamReadError(e) == [ok |-> FALSE, n |-> 0, data |-> <<>>, e |-> e]

\* A receive loop that returns only the chunk of its last read.
ReceiveStepLastChunk(rb, rd) ==
    IF ~rd.ok THEN [done |-> TRUE, res |-> Err(io_receive(rd.e)), rb |-> rb, how |-> "error"]
    ELSE IF rd.n = 0 THEN [done |-> TRUE, res |-> Ok(rb), rb |-> rb, how |-> "eof"]
    ELSE IF rd.n < BufLen
         THEN [done |-> TRUE, res |-> Ok(rd.data), rb |-> rd.data, how |-> "short"]
         ELSE [done |-> FALSE, res |-> Ok(<<>>), rb |-> rb \o rd.data, how |-> "none"]

\* A receive loop that returns nothing when it ends at end of stream.
ReceiveStepEofEmpty(rb, rd) ==
    IF ~rd.ok THEN [done |-> TRUE, res |-> Err(io_receive(rd.e)), rb |-> rb, how |-> "error"]
    ELSE IF rd.n = 0 THEN [done |-> TRUE, res |-> Ok(<<>>), rb |-> rb, how |-> "eof"]
    ELSE IF rd.n < BufLen
         THEN [done |-> TRUE, res |-> Ok(rb \o rd.data), rb |-> rb \o rd.data,
               how |-> "short"]
         ELSE [done |-> FALSE, res |-> Ok(<<>>), rb |-> rb \o rd.data, how |-> "none"]

\* A receive loop that takes a read that fills the buffer for the end of the message.
ReceiveStepFullEnds(rb, rd) ==
    IF ~rd.ok THEN [done |-> TRUE, res |-> Err(io_receive(rd.e)), rb |-> rb, how |-> "error"]
    ELSE IF rd.n = 0 THEN [done |-> TRUE, res |-> Ok(rb), rb |-> rb, how |-> "eof"]
    ELSE IF rd.n <= BufLen
         THEN [done |-> TRUE, res |-> Ok(rb \o rd.data), rb |-> rb \o rd.data,
               how |-> "short"]
         ELSE [done |-> FALSE, res |-> Ok(<<>>), rb |-> rb \o rd.data, how |-> "none"]

\* A receive loop that takes the end of the stream before any byte for a failure.
ReceiveStepEofFails(rb, rd) ==
    IF ~rd.ok THEN [done |-> TRUE, res |-> Err(io_receive(rd.e)), rb |-> rb, how |-> "error"]
    ELSE IF rd.n = 0
         THEN [done |-> TRUE,
               res |-> IF rb = <<>> THEN Err(ReceiveError("UnexpectedEof")) ELSE Ok(rb),
               rb |-> rb, how |-> "eof"]
    ELSE IF rd.n < BufLen
         THEN [done |-> TRUE, res |-> Ok(rb \o rd.data), rb |-> rb \o rd.data,
               how |-> "short"]
         ELSE [done |-> FALSE, res |-> Ok(<<>>), rb |-> rb \o rd.data, how |-> "none"]

\* The match on the read's result rd, with rb the return_bytes so far:
\* done says whether receive returns, res what it returns.
ReceiveStep(rb, rd) ==
    IF ~rd.ok THEN [done |-> TRUE, res |-> Err(io_receive(rd.e)), rb |-> rb, how |-> "error"]
    ELSE IF rd.n = 0 THEN [done |-> TRUE, res |-> Ok(rb), rb |-> rb, how |-> "eof"]
    ELSE IF rd.n < BufLen
         THEN [done |-> TRUE, res |-> Ok(rb \o rd.data), rb |-> rb \o rd.data,
               how |-> "short"]
         ELSE [done |-> FALSE, res |-> Ok(<<>>), rb |-> rb \o rd.data, how |-> "none"]

\* A receive loop whose deadline runs from the start of the call.
LoopIterationCallDeadline(rd) ==
    LET st == ReceiveStep(return_bytes, rd) IN
    /\ consumed' = consumed + rd.n
    /\ ended' = st.how
    /\ IF st.done
       THEN /\ Finish(op, st.res)
            /\ DropLocals
            /\ UNCHANGED reads
       ELSE /\ return_bytes' = st.rb
            /\ waited' = elapsed
            /\ reads' = reads + 1
            /\ UNCHANGED <<pc, chan_result, result, sendbuf, tmo, elapsed>>
    /\ UNCHANGED <<cfgVars, rcv_timeout, receive_times, stream, write_ends, arrived,
                   peer_closed, segs, wire, op, calls, nops, args, call_start, all_arrived,
                   sends, receives>>

\* One iteration of the receive loop, its read completing with rd.
LoopIteration(rd) ==
    LET st == ReceiveStep(return_bytes, rd) IN
    /\ consumed' = consumed + rd.n
    /\ ended' = st.how
    /\ IF st.done
       THEN /\ Finish(op, st.res)
            /\ DropLocals
            /\ UNCHANGED reads
       ELSE /\ return_bytes' = st.rb
            /\ waited' = 0
            /\ reads' = reads + 1
            /\ UNCHANGED <<pc, chan_result, result, sendbuf, tmo, elapsed>>
    /\ UNCHANGED <<cfgVars, rcv_timeout, receive_times, stream, write_ends, arrived,
                   peer_closed, segs, wire, op, calls, nops, args, call_start, all_arrived,
                   sends, receives>>

\* The pending read completes with data or at end of stream.
TcpRead ==
    /\ pc = "read"
    /\ ~broken
    /\ ReadReady
    /\ UNCHANGED broken
    /\ LoopIteration(StreamRead)

\* The pending read fails with e, on a connection already broken or breaking now.
TcpReadError(e) ==
    /\ pc = "read"
    /\ broken' = TRUE
    /\ LoopIteration(StreamReadError(e))

\* A timeout that hands back what the call had accumulated.
TimeoutResultPartial(timeout_, rb) == Ok(rb)

\* What receive returns when tokio::time::timeout(timeout_, read_fut) elapses
\* with rb accumulated.
TimeoutResult(timeout_, rb) == Err(ReceiveTimeout(timeout_))

\* A timeout that puts the bytes the call had read back for the next call.
TcpTimeoutRewind ==
    /\ pc = "read"
    /\ tmo.some
    /\ ~ReadReady
    /\ waited >= tmo.dur
    /\ ended' = "timeout"
    /\ consumed' = call_start
    /\ Finish(op, TimeoutResult(tmo.dur, return_bytes))
    /\ DropLocals
    /\ UNCHANGED <<cfgVars, rcv_timeout, receive_times, peerVars, wire, op,
                   calls, nops, args, reads, call_start, all_arrived, sends, receives>>

\* The timeout of the pending read elapses.
TcpTimeout ==
    /\ pc = "read"
    /\ tmo.some
    /\ ~ReadReady
    /\ waited >= tmo.dur
    /\ ended' = "timeout"
    /\ Finish(op, TimeoutResult(tmo.dur, return_bytes))
    /\ DropLocals
    /\ UNCHANGED <<cfgVars, rcv_timeout, receive_times, peerVars, consumed, wire, op,
                   calls, nops, args, reads, call_start, all_arrived, sends, receives>>

\* A clock tick passes while the read is pending.
Tick ==
    /\ pc = "read"
    /\ ~ReadReady
    /\ waited < (IF tmo.some THEN tmo.dur ELSE MaxWait)
    /\ waited' = waited + 1
    /\ elapsed' = elapsed + 1
    /\ UNCHANGED <<cfgVars, rcv_timeout, receive_times, peerVars, consumed, wire, callVars,
                   return_bytes, reads, ended, call_start, all_arrived, chan_result,
                   result, sends, receives>>

\* ------------------------------------------------------ peer and network
\* The peer writes one more buffer to its end of the stream.
PeerWrite(p) ==
    /\ chan = "tcp"
    /\ Running
    /\ ~peer_closed
    /\ ~broken
    /\ Len(write_ends) < MaxWrites
    /\ stream' = stream \o p
    /\ write_ends' = Append(write_ends, Len(stream) + Len(p))
    /\ all_arrived' = FALSE
    /\ UNCHANGED <<cfgVars, rcv_timeout, receive_times, arrived, peer_closed, broken, segs,
                   consumed, wire, callVars, loopVars, chan_result, result, sends,
                   receives>>

\* Everything in flight reaches the local socket.
DeliverAll ==
    /\ Running
    /\ ~broken
    /\ arrived < Len(stream)
    /\ arrived' = Len(stream)
    /\ UNCHANGED <<cfgVars, rcv_timeout, receive_times, stream, write_ends, peer_closed,
                   broken, segs, consumed, wire, callVars, loopVars, all_arrived,
                   chan_result, result, sends, receives>>

\* A segment of k bytes, short of what is in flight, reaches the local socket.
SegmentSizes == {1, BufLen}
DeliverSegment(k) ==
    /\ Running
    /\ ~broken
    /\ segs < MaxSegments
    /\ arrived + k < Len(stream)
    /\ arrived' = arrived + k
    /\ segs' = segs + 1
    /\ UNCHANGED <<cfgVars, rcv_timeout, receive_times, stream, write_ends, peer_closed,
                   broken, consumed, wire, callVars, loopVars, all_arrived, chan_result,
                   result, sends, receives>>

\* The peer closes its end of the stream; the close arrives after all its bytes.
PeerClose ==
    /\ chan = "tcp"
    /\ Running
    /\ ~peer_closed
    /\ ~broken
    /\ arrived = Len(stream)
    /\ peer_closed' = TRUE
    /\ UNCHANGED <<cfgVars, rcv_timeout, receive_times, stream, write_ends, arrived,
                   broken, segs, consumed, wire, callVars, loopVars, all_arrived,
                   chan_result, result, sends, receives>>

\* ------------------------------------------------------------ the system
\* Transport::new(internal_transport, transport_config) around a fresh channel.
Init ==
    /\ chan \in {"tcp", "canned"}
    /\ rcv_timeout \in Durations
    /\ always_respond_with = "Foo"
    /\ receive_times \in (IF chan = "canned" THEN 0..MaxReceiveTimes ELSE {0})
    /\ canned_n = receive_times
    /\ stream = <<>>
    /\ write_ends = <<>>
    /\ arrived = 0
    /\ consumed = 0
    /\ peer_closed = FALSE
    /\ broken = FALSE
    /\ wire = <<>>
    /\ op = "idle"
    /\ pc = "idle"
    /\ sendbuf = <<>>
    /\ tmo = None
    /\ return_bytes = <<>>
    /\ waited = 0
    /\ elapsed = 0
    /\ chan_result = NoChanResult
    /\ result = NoResult
    /\ calls = <<>>
    /\ reads = 0
    /\ ended = "none"
    /\ call_start = 0
    /\ all_arrived = FALSE
    /\ args = NoArgs
    /\ sends = <<>>
    /\ receives = 0
    /\ nops = 0
    /\ segs = 0

Next ==
    \/ \E qn \in SentQueries : send_query(qn[1], qn[2])
    \/ receive_query
    \/ \E b \in Responses : respond(b)
    \/ \E d \in Durations : set_rcv_timeout(d)
    \/ TcpSendOk
    \/ \E e \in IoErrors : TcpSendFail(e)
    \/ \E e \in IoErrors : TcpSendBreak(e)
    \/ TcpRead
    \/ \E e \in IoErrors : TcpReadError(e)
    \/ TcpTimeout
    \/ Tick
    \/ \E p \in PeerPayloads(Len(write_ends)) : PeerWrite(p)
    \/ DeliverAll
    \/ \E k \in SegmentSizes : DeliverSegment(k)
    \/ PeerClose

Spec == Init /\ [][Next]_vars

\* ============================================================ properties
\* The last operation ran TcpTransport's receive loop and the loop has returned.
ReceiveReturned == chan = "tcp" /\ pc = "idle" /\ reads > 0

\* The bytes the reads of the last receive loop took from the stream.
ConsumedByCall == SubSeq(stream, call_start + 1, consumed)

C3_Timeout ==
    /\ []((chan = "tcp" /\ pc = "idle" /\ ended = "timeout")
          => /\ calls[1].timeout.some
             /\ chan_result = Err(ReceiveTimeout(calls[1].timeout.dur))
             /\ chan_result.bytes = <<>>)
    /\ []((pc = "read" /\ tmo.some) => waited <= tmo.dur)
    /\ [][(pc = "read" /\ tmo.some /\ ~ReadReady /\ waited = tmo.dur
           /\ peerVars' = peerVars)
          => /\ pc' = "idle"
             /\ ended' = "timeout"
             /\ chan_result' = Err(ReceiveTimeout(tmo.dur))
             /\ consumed' = consumed]_vars

\* A call given one tick read BufLen bytes, then timed out: the bytes are not returned.
C3_Witness ==
    /\ chan = "tcp" /\ pc = "idle" /\ ended = "timeout"
    /\ calls[1].timeout = Some(1)
    /\ consumed = call_start + BufLen
    /\ reads = 2
    /\ chan_result = Err(ReceiveTimeout(1))

\* The last operation is a send_and_wait_for_response on TcpTransport.
SendAndWait == chan = "tcp" /\ op = "send_query" /\ calls # <<>>

\* Its write_all has put the whole buffer on the wire / has failed.
SentWhole ==
    /\ Len(sends) > 0
    /\ sends[Len(sends)].opno = nops
    /\ sends[Len(sends)].bytes = calls[1].bytes
    /\ sends[Len(sends)].wrote = Len(calls[1].bytes)
SendFailed ==
    /\ Len(sends) > 0
    /\ sends[Len(sends)].opno = nops
    /\ sends[Len(sends)].wrote < Len(sends[Len(sends)].bytes)

\* C4: send_and_wait_for_response(b, t) reads nothing before its send has succeeded;
\* a failed send makes the result SendError with no read performed; after a
\* successful send of b the receive loop runs with Some(t) and the result is the
\* loop's: ReceiveTimeout(t) on a timeout, ReceiveError on a failed read, the bytes
\* read otherwise; SendError is the result exactly when the send failed.
C4_SendThenReceive ==
    SendAndWait =>
        /\ pc = "send" => (reads = 0 /\ consumed = call_start)
        /\ pc = "read" => (SentWhole /\ tmo = calls[1].timeout /\ tmo.some)
        /\ pc = "idle" =>
            /\ SendFailed <=> chan_result.err.kind = "SendError"
            /\ SendFailed => (reads = 0 /\ consumed = call_start /\ ended = "none"
                              /\ ~chan_result.ok)
            /\ ~SendFailed =>
                /\ SentWhole
                /\ reads > 0
                /\ \/ ended = "timeout"
                      /\ chan_result = Err(ReceiveTimeout(calls[1].timeout.dur))
                   \/ ended = "error" /\ chan_result.err.kind = "ReceiveError"
                   \/ ended \in {"short", "eof"} /\ chan_result = Ok(ConsumedByCall)

\* The send failed while a reply was waiting at the socket: SendError, nothing read.
C4_Witness ==
    /\ SendAndWait /\ pc = "idle"
    /\ chan_result = Err(SendError("ConnectionReset"))
    /\ reads = 0
    /\ consumed < arrived

\* C5: the wire is the buffers of the sends in the order their operations were
\* invoked, each in one piece: every send's bytes lie on the wire where the wire
\* ended when it began, a later operation's bytes after all of an earlier one's;
\* an operation's bytes are not on the wire before its write; and what a receive
\* returns is the next bytes of the stream, from where the previous read stopped.
C5_WireOrder ==
    chan = "tcp" =>
        /\ \A i \in DOMAIN sends :
              SubSeq(wire, sends[i].at + 1, sends[i].at + sends[i].wrote)
                = SubSeq(sends[i].bytes, 1, sends[i].wrote)
        /\ \A i, j \in DOMAIN sends :
              i < j => /\ sends[i].at + sends[i].wrote <= sends[j].at
                       /\ sends[i].opno < sends[j].opno
        /\ Len(wire) = (IF sends = <<>> THEN 0
                        ELSE sends[Len(sends)].at + sends[Len(sends)].wrote)
        /\ pc = "send" => \A i \in DOMAIN sends : sends[i].opno < nops
        /\ call_start <= consumed
        /\ (ReceiveReturned /\ chan_result.ok) => chan_result.bytes = ConsumedByCall

\* send_query(42, HelloWorld) then send_query("Foo", Ping): the two envelopes, whole,
\* one after the other.
C5_Witness ==
    /\ chan = "tcp" /\ pc = "idle" /\ Len(sends) = 2
    /\ sends[1].bytes = package_bytes(SerInt(42).bytes, "HelloWorld").bytes
    /\ sends[2].bytes = package_bytes(SerString("Foo").bytes, "Ping").bytes
    /\ wire = sends[1].bytes \o sends[2].bytes

\* Raw query buffers: the encoded queries and the empty buffer.
RawQueries == Queries \cup {<<>>}

\* C6: for every name n and raw query buffer q, decoding the envelope built from
\* encode(n) and q gives an envelope whose name field decodes to n and whose query
\* field is q; and a receive_query whose channel call returned the bytes of
\* send_query(q, n) as one message returns ReceivedQuery{n, q}.
C6_RoundTrip ==
    \A n \in Names, q \in RawQueries :
        /\ LET package == DePackage(package_bytes(q, n).bytes) IN
            /\ package.ok
            /\ DeName(package.name_bytes).ok
            /\ DeName(package.name_bytes).str = n
            /\ package.query_bytes = q
        /\ (op = "receive_query" /\ pc = "idle"
            /\ chan_result = Ok(package_bytes(q, n).bytes))
           => result = ReceivedQuery(n, q)

\* The peer wrote the envelope of (42, HelloWorld); receive_query returned it decoded.
C6_Witness ==
    /\ chan = "tcp" /\ op = "receive_query" /\ pc = "idle"
    /\ chan_result = Ok(package_bytes(SerInt(42).bytes, "HelloWorld").bytes)
    /\ result = ReceivedQuery("HelloWorld", SerInt(42).bytes)

\* C7 as stated: around the test double created with "Foo" and one receive, the
\* first receive_query returns a ReceivedQuery with a name of the program and
\* query bytes that decode to "Foo", and the second fails with ReceiveError.
C7_CannedScenario ==
    (chan = "canned" /\ always_respond_with = "Foo" /\ canned_n = 1
     /\ op = "receive_query" /\ pc = "idle")
    => /\ receives = 1 => /\ result.ok
                          /\ result.name \in Names
                          /\ DeString(result.bytes).ok
                          /\ DeString(result.bytes).str = "Foo"
       /\ receives = 2 => /\ ~result.ok
                          /\ result.err.kind = "ReceiveError"

\* C8: send_query(q, n), n encodable, makes one channel call,
\* send_and_wait_for_response, with the buffer encode({encode(n), q}), whose query field is q itself, and with the
\* rcv_timeout the config holds when it is called; on TcpTransport that buffer is
\* what write_all is given; and it returns the channel's Ok bytes as they are.
C8_SendQueryEnvelope ==
    /\ []((op = "send_query" /\ SerName(args.rpc_name).ok)
          => /\ Len(calls) = 1
             /\ calls[1].fn = "send_and_wait_for_response"
             /\ calls[1].bytes
                  = SerPackage(SerString(args.rpc_name).bytes, args.query_bytes).bytes
             /\ DePackage(calls[1].bytes).query_bytes = args.query_bytes
             /\ calls[1].timeout.some
             /\ (chan = "tcp" /\ pc = "send") => sendbuf = calls[1].bytes
             /\ (chan = "tcp" /\ pc # "send")
                => sends[Len(sends)].bytes = calls[1].bytes
             /\ (pc = "idle" /\ chan_result.ok) => result = RpcOk(chan_result.bytes))
    /\ [][(nops' = nops + 1 /\ op' = "send_query" /\ SerName(args'.rpc_name).ok)
          => calls'[1].timeout = Some(rcv_timeout)]_vars

\* The second operation, send_query("Foo", Ping) on TcpTransport, returned the
\* peer's reply.
C8_Witness ==
    /\ chan = "tcp" /\ op = "send_query" /\ pc = "idle" /\ nops = 2
    /\ args = [query_bytes |-> SerString("Foo").bytes, rpc_name |-> "Ping"]
    /\ chan_result.ok
    /\ Len(chan_result.bytes) > 0
    /\ result = RpcOk(chan_result.bytes)

\* C9: receive_query makes one channel call, receive(None); the number of receive
\* calls grows by one when a receive_query is invoked and at no other step; when
\* that call fails with e, receive_query returns RpcError::TransportError(e), e
\* unchanged; and having returned, it touches the channel no more.
C9_ReceiveOnce ==
    /\ [](op = "receive_query"
          => /\ calls = <<[fn |-> "receive", bytes |-> <<>>, timeout |-> None]>>
             /\ (pc = "idle" /\ ~chan_result.ok)
                => /\ result = RpcTransportError(chan_result.err)
                   /\ result.err.kind = chan_result.err.kind
                   /\ result.err.msg = chan_result.err.msg)
    /\ [][receives' = receives
            + (IF nops' = nops + 1 /\ op' = "receive_query" THEN 1 ELSE 0)]_vars
    /\ [][(op = "receive_query" /\ pc = "idle" /\ nops' = nops)
          => /\ calls' = calls
             /\ receive_times' = receive_times
             /\ consumed' = consumed
             /\ result' = result]_vars

\* The read of a receive_query failed: the caller gets the ReceiveError, wrapped.
C9_Witness ==
    /\ chan = "tcp" /\ op = "receive_query" /\ pc = "idle"
    /\ chan_result = Err(ReceiveError("ConnectionReset"))
    /\ result = RpcTransportError(ReceiveError("ConnectionReset"))
    /\ receives = 1

\* C10: a receive_query on TcpTransport runs its receive loop with no timeout and
\* never ends in a timeout or returns ReceiveTimeout, whatever rcv_timeout is; and
\* while no byte, close or failure arrives, its pending read stays pending.
C10_NoTimeout ==
    /\ []((chan = "tcp" /\ op = "receive_query")
          => /\ ~tmo.some
             /\ ended # "timeout"
             /\ chan_result.err.kind # "ReceiveTimeout"
             /\ result.err.kind # "ReceiveTimeout")
    /\ [][(chan = "tcp" /\ op = "receive_query" /\ pc = "read" /\ ~ReadReady
           /\ peerVars' = peerVars)
          => (pc' = "read" /\ result' = NoResult)]_vars

\* A receive_query has waited longer than rcv_timeout and is still waiting.
C10_Witness ==
    /\ chan = "tcp" /\ op = "receive_query" /\ pc = "read"
    /\ ~ReadReady
    /\ waited = MaxWait
    /\ waited > rcv_timeout

\* C11: respond(b) makes one channel call, send, with b itself and no timeout; it
\* starts no receive and reads nothing; on TcpTransport write_all is given exactly
\* b; it returns Ok(()) when the send succeeded and RpcError::TransportError(e)
\* when the send failed with e.
C11_RespondSendsOnce ==
    /\ [](op = "respond"
          => /\ calls = <<[fn |-> "send", bytes |-> args.query_bytes, timeout |-> None]>>
             /\ reads = 0
             /\ consumed = call_start
             /\ (chan = "tcp" /\ pc = "send") => sendbuf = args.query_bytes
             /\ (chan = "tcp" /\ pc = "idle")
                => /\ sends[Len(sends)].opno = nops
                   /\ sends[Len(sends)].bytes = args.query_bytes
                   /\ chan_result.ok
                      <=> sends[Len(sends)].wrote = Len(args.query_bytes)
                   /\ \A i \in 1..(Len(sends) - 1) : sends[i].opno < nops
             /\ pc = "idle"
                => result = (IF chan_result.ok THEN RpcOk(<<>>)
                             ELSE RpcTransportError(chan_result.err)))
    /\ [][(nops' = nops + 1 /\ op' = "respond")
          => (receives' = receives /\ receive_times' = receive_times)]_vars

\* A respond on TcpTransport put its bytes, as they were, at the end of the wire
\* while unread bytes of the peer waited at the socket.
C11_Witness ==
    /\ chan = "tcp" /\ op = "respond" /\ pc = "idle"
    /\ result = RpcOk(<<>>)
    /\ Len(wire) >= Len(args.query_bytes)
    /\ SubSeq(wire, Len(wire) - Len(args.query_bytes) + 1, Len(wire)) = SerString("Foo").bytes
    /\ consumed < arrived

\* Where on the stream the peer's i-th write begins.
WriteStart(i) == IF i = 1 THEN 0 ELSE write_ends[i - 1]

\* C12 as stated: every receive that returns bytes returns exactly one of the
\* peer's sends, whole and alone, the first receive the first send, a later one
\* the send that follows what was received before.
C12_OneMessagePerReceive ==
    (ReceiveReturned /\ chan_result.ok /\ chan_result.bytes # <<>>)
    => \E i \in DOMAIN write_ends :
          /\ call_start = WriteStart(i)
          /\ chan_result.bytes = SubSeq(stream, WriteStart(i) + 1, write_ends[i])

\* C13: on the test double that always responds with "Foo", every send_query that
\* reaches the channel returns Ok with bytes that decode to the string "Foo",
\* whatever the query bytes, the name, rcv_timeout and the receive count left; and
\* it leaves the receive count as it was.
C13_CannedReply ==
    /\ []((chan = "canned" /\ op = "send_query" /\ calls # <<>>)
          => /\ pc = "idle"
             /\ result.ok
             /\ DeString(result.bytes).ok
             /\ DeString(result.bytes).str = always_respond_with
             /\ always_respond_with = "Foo")
    /\ [][(chan = "canned" /\ nops' = nops + 1 /\ op' = "send_query")
          => receive_times' = receive_times]_vars

\* The double has no receive left (its one receive is used up); send_query with
\* the query 42 still returns the encoding of "Foo".
C13_Witness ==
    /\ chan = "canned" /\ op = "send_query" /\ pc = "idle"
    /\ canned_n = 1 /\ receive_times = 0 /\ receives = 1
    /\ args = [query_bytes |-> SerInt(42).bytes, rpc_name |-> "HelloWorld"]
    /\ result = RpcOk(SerString("Foo").bytes)

\* C14: the step at which a receive loop times out leaves the stream position
\* where its reads had moved it and returns no bytes; nothing of the loop's
\* return_bytes outlives the call; the stream position never moves back, and the
\* next operation's receive begins there with an empty return_bytes, so what it
\* returns lies on the stream after everything the timed-out call had read.
C14_TimeoutDiscards ==
    /\ [][(pc = "read" /\ pc' = "idle" /\ ended' = "timeout")
          => /\ consumed' = consumed
             /\ chan_result'.bytes = <<>>
             /\ result'.bytes = <<>>
             /\ return_bytes' = <<>>]_vars
    /\ [][consumed' >= consumed]_vars
    /\ [][nops' = nops + 1
          => (call_start' = consumed /\ consumed' = consumed /\ return_bytes' = <<>>)]_vars
    /\ [](pc = "idle" => return_bytes = <<>>)
    /\ []((chan = "tcp" /\ pc = "read")
          => return_bytes = SubSeq(stream, call_start + 1, consumed))
    /\ []((ReceiveReturned /\ chan_result.ok)
          => chan_result.bytes = SubSeq(stream, call_start + 1, consumed))

\* A send_query read BufLen bytes and timed out; the receive_query after it
\* returned the bytes that follow them on the stream, and none of them.
C14_Witness ==
    /\ chan = "tcp" /\ nops = 2 /\ op = "receive_query" /\ pc = "idle"
    /\ Len(sends) = 1 /\ sends[1].wrote = Len(sends[1].bytes)
    /\ call_start = BufLen
    /\ ~peer_closed
    /\ consumed > call_start
    /\ chan_result = Ok(SubSeq(stream, BufLen + 1, consumed))

\* C15: a receive loop with no timeout whose reads so far were all full buffers
\* stays in its loop as long as no byte, close or failure arrives; it leaves the
\* loop only by a read that yields fewer than BufLen bytes, zero bytes at end of
\* stream, or an I/O error; every read that filled the buffer is followed by
\* another read.
C15_FullBufferStall ==
    /\ []((chan = "tcp" /\ pc = "read") => consumed - call_start = (reads - 1) * BufLen)
    /\ [][(pc = "read" /\ ~tmo.some /\ ~ReadReady /\ peerVars' = peerVars)
          => (pc' = "read" /\ reads' = reads /\ consumed' = consumed
              /\ chan_result' = NoChanResult)]_vars
    /\ [][(pc = "read" /\ ~tmo.some /\ pc' = "idle")
          => \/ ended' = "short" /\ consumed' - consumed \in 1..(BufLen - 1)
             \/ ended' = "eof" /\ consumed' = consumed /\ peer_closed
             \/ ended' = "error" /\ broken' /\ ~chan_result'.ok]_vars
    /\ [][(pc = "read" /\ consumed' - consumed = BufLen)
          => (pc' = "read" /\ reads' = reads + 1)]_vars

\* The peer wrote exactly BufLen bytes and keeps the stream open; receive_query has
\* read them all and still waits, MaxWait ticks on.
C15_Witness ==
    /\ chan = "tcp" /\ op = "receive_query" /\ pc = "read"
    /\ reads = 2
    /\ Len(stream) = BufLen /\ consumed = BufLen /\ call_start = 0
    /\ ~peer_closed /\ ~broken
    /\ waited = MaxWait

\* C16: when the first read of a receive loop completes at end of stream, the
\* peer having closed with nothing unread, the call returns Ok with an empty
\* buffer, whether it was given a timeout or not; a loop that has ended that way
\* has returned neither ReceiveError nor ReceiveTimeout and has consumed nothing.
C16_EmptyEndOfStream ==
    /\ [][(chan = "tcp" /\ pc = "read" /\ reads = 1 /\ peer_closed
           /\ consumed = Len(stream) /\ pc' = "idle" /\ ~broken')
          => /\ ended' = "eof"
             /\ chan_result' = Ok(<<>>)
             /\ consumed' = consumed]_vars
    /\ [][(chan = "tcp" /\ pc = "read" /\ peer_closed /\ consumed = Len(stream))
          => ~(pc' = "idle" /\ ended' = "timeout")]_vars
    /\ []((chan = "tcp" /\ pc = "idle" /\ ended = "eof" /\ reads = 1)
          => /\ chan_result = Ok(<<>>)
             /\ chan_result.err.kind \notin {"ReceiveError", "ReceiveTimeout"}
             /\ consumed = call_start)

\* The first read of a send_query's receive, which runs with a timeout, met the
\* end of the stream: Ok with no bytes.
C16_Witness ==
    /\ chan = "tcp" /\ pc = "idle" /\ ended = "eof" /\ reads = 1
    /\ op = "send_query"
    /\ calls[1].timeout.some
    /\ chan_result = Ok(<<>>)

\* C17: in a receive loop with Some(d) the wait of the read in flight never
\* exceeds d while the time since the loop began may; each new read starts its
\* wait at zero under the same d; the loop ends in a timeout only at a step where
\* the read in flight has waited d with nothing ready, returning
\* ReceiveTimeout(d); and a read that has waited d with nothing arriving ends in
\* that timeout.
C17_PerReadTimeout ==
    /\ []((chan = "tcp" /\ pc = "read" /\ tmo.some)
          => (waited <= tmo.dur /\ waited <= elapsed /\ elapsed <= reads * tmo.dur))
    /\ [][(pc = "read" /\ tmo.some /\ pc' = "read" /\ reads' = reads + 1)
          => (waited' = 0 /\ tmo' = tmo /\ elapsed' = elapsed)]_vars
    /\ [][(pc = "read" /\ tmo.some /\ pc' = "idle" /\ ended' = "timeout")
          => /\ waited = tmo.dur
             /\ ~ReadReady
             /\ chan_result' = Err(ReceiveTimeout(tmo.dur))]_vars
    /\ [][(pc = "read" /\ tmo.some /\ waited < tmo.dur) => ended' # "timeout"]_vars
    /\ [][(pc = "read" /\ tmo.some /\ waited = tmo.dur /\ ~ReadReady
           /\ peerVars' = peerVars)
          => (pc' = "idle" /\ ended' = "timeout")]_vars

\* A call given one tick: two reads each completed after one tick with a full
\* buffer; two ticks in, the call has not timed out and begins its third read.
C17_Witness ==
    /\ chan = "tcp" /\ pc = "read"
    /\ tmo = Some(1)
    /\ reads = 3
    /\ consumed = call_start + 2 * BufLen
    /\ waited = 0
    /\ elapsed = 2

\* C18: on the test double created with receive_times = n, the receive count left
\* is n less the receive calls made, never below zero; a receive call succeeds
\* with the encoding of the canned string exactly when it is among the first n,
\* otherwise it fails with ReceiveError; send and send_and_wait_for_response
\* leave the count as it is.
C18_CannedReceiveCount ==
    /\ [](chan = "canned"
          => /\ receive_times >= 0
             /\ receive_times = (IF receives < canned_n THEN canned_n - receives ELSE 0)
             /\ (calls # <<>> /\ calls[1].fn = "receive")
                => chan_result = (IF receives <= canned_n
                                  THEN Ok(SerString(always_respond_with).bytes)
                                  ELSE Err(ReceiveError("Run out of receive count"))))
    /\ [][(chan = "canned" /\ nops' = nops + 1 /\ calls' # <<>>
           /\ calls'[1].fn \in {"send", "send_and_wait_for_response"})
          => receive_times' = receive_times]_vars
    /\ [][(chan = "canned" /\ nops' = nops) => receive_times' = receive_times]_vars

\* Created with one receive: the second receive call failed, the count is at zero.
C18_Witness ==
    /\ chan = "canned" /\ canned_n = 1 /\ receives = 2
    /\ op = "receive_query" /\ pc = "idle"
    /\ receive_times = 0
    /\ chan_result = Err(ReceiveError("Run out of receive count"))

\* C19: while a receive loop runs, its return_bytes are exactly the stream bytes
\* its reads have consumed, in stream order; a receive that returns Ok returns
\* exactly those bytes, as many as it consumed; each read hands out the bytes
\* that follow the last one handed out; nothing is consumed outside a receive
\* loop, and each operation starts where the one before stopped, so the buffers
\* returned by successive Ok calls, joined in call order, are the consumed bytes.
C19_ByteConservation ==
    /\ []((chan = "tcp" /\ pc = "read")
          => /\ return_bytes = SubSeq(stream, call_start + 1, consumed)
             /\ Len(return_bytes) = consumed - call_start)
    /\ []((ReceiveReturned /\ chan_result.ok)
          => /\ chan_result.bytes = ConsumedByCall
             /\ Len(chan_result.bytes) = consumed - call_start)
    /\ []((chan = "tcp") => (call_start <= consumed /\ consumed <= arrived
                             /\ arrived <= Len(stream)))
    /\ [][(pc = "read" /\ pc' = "read" /\ consumed' # consumed)
          => return_bytes' = return_bytes \o SubSeq(stream, consumed + 1, consumed')]_vars
    /\ [][(pc = "read" /\ pc' = "idle" /\ chan_result'.ok)
          => chan_result'.bytes
               = return_bytes \o SubSeq(stream, consumed + 1, consumed')]_vars
    /\ [][pc # "read" => consumed' = consumed]_vars
    /\ [][nops' = nops + 1 => call_start' = consumed]_vars
    /\ [][SubSeq(stream', 1, Len(stream)) = stream]_vars

\* Two receive calls, neither failing: the first returned the first envelope, the
\* second what the peer wrote after it; together they are the whole stream.
C19_Witness ==
    /\ chan = "tcp" /\ nops = 2 /\ op = "receive_query" /\ pc = "idle"
    /\ sends = <<>>
    /\ Len(write_ends) = 2
    /\ call_start = write_ends[1]
    /\ call_start = Len(package_bytes(SerInt(42).bytes, "HelloWorld").bytes)
    /\ consumed = Len(stream)
    /\ chan_result = Ok(SubSeq(stream, call_start + 1, Len(stream)))
    /\ chan_result.bytes # <<>>

\* C20: a send_query whose name fails to encode makes no channel call and returns
\* at once with that SerialiseError: the step puts nothing on the wire, begins no
\* write and no read, makes no receive and leaves the test double's count; and a
\* send_query that made no channel call has returned a SerialiseError.
C20_EncodeFailureSendsNothing ==
    /\ [][(nops' = nops + 1 /\ op' = "send_query" /\ ~SerName(args'.rpc_name).ok)
          => /\ calls' = <<>>
             /\ pc' = "idle"
             /\ ~result'.ok
             /\ result'.err = SerName(args'.rpc_name).err
             /\ result'.err.kind = "SerialiseError"
             /\ wire' = wire
             /\ sends' = sends
             /\ receives' = receives
             /\ receive_times' = receive_times
             /\ consumed' = consumed]_vars
    /\ []((op = "send_query" /\ calls = <<>>)
          => /\ pc = "idle"
             /\ reads = 0
             /\ result.err.kind = "SerialiseError"
             /\ \A i \in DOMAIN sends : sends[i].opno < nops)
    /\ []((op = "send_query" /\ calls # <<>>) => SerName(args.rpc_name).ok)

\* After a respond, with a reply waiting at the socket, send_query with the name
\* that does not encode: SerialiseError, the wire as the respond left it, nothing read.
C20_Witness ==
    /\ chan = "tcp" /\ nops = 2 /\ op = "send_query" /\ pc = "idle"
    /\ args.rpc_name = "Unencodable"
    /\ calls = <<>>
    /\ result.err = SerialiseError("custom")
    /\ wire = SerString("Foo").bytes
    /\ Len(sends) = 1
    /\ consumed = 0 /\ arrived > 0

====
